---- MODULE Spec2Model ----
(***************************************************************************)
(* Model of the size-comparison route of the maintainer dashboard           *)
(* (src/unnamed/part_004, with its older variants part_001 and part_003)    *)
(* and of the test-profile routes (src/app/routes/test-profile).            *)
(*                                                                          *)
(* Strings are modelled as sequences of tokens: a token is either a         *)
(* maximal run of word characters ([\w-]+, e.g. "material-ui") or a single  *)
(* punctuation character ("@", "/", ".", ":").  Two strings are equal iff   *)
(* their token sequences are equal.                                         *)
(*                                                                          *)
(* Numbers: byte sizes are naturals.  A quotient of two sizes is kept as    *)
(* an exact fraction, or as one of the IEEE-754 specials the division can   *)
(* produce (+Infinity, -Infinity, NaN).                                     *)
(***************************************************************************)
EXTENDS Integers, Sequences, FiniteSets, TLC

\* ------------------------------------------------------------------ bounds

\* Largest byte size recorded in a snapshot (sizes are 0..MaxSize).
MaxSize == 1

\* Largest number of bundle records in the two snapshots of one request taken
\* together.
MaxKeys == 3

\* Largest timing of a profiler report (timings are 0..MaxTiming).
MaxTiming == 2

\* Largest number of timings passed to one TimingAnalysisMean.
MaxTimings == 4

\* Largest number of test profiles of one build.
MaxProfiles == 3

\* Largest number of profiler reports one profile has for a test id.
MaxReports == 2

\* Largest number of artifacts in the artifact listing of a build.
MaxArtifacts == 2

\* Largest number of renders of one ErrorBoundary.
MaxRenders == 5

\* Largest number of errors the descendants of one ErrorBoundary throw.
MaxErrors == 2

\* ------------------------------------------------------------------ strings

\* The bundle ids that occur in the modelled snapshots.
idCoreButton == <<"@", "material-ui", "/", "core", "/", "Button">>

idButtonEsm == <<"Button", ".", "esm">>

idCore == <<"@", "material-ui", "/", "core">>

BundleIds == {idCoreButton, idButtonEsm, idCore}

\* Collation order of the tokens: punctuation before letters, letters
\* case-insensitively first.  Strings compare token by token in this order.
Collation == <<"_app", "/", ".", ":", "@", "[", "]", "build", "Button", "core",
               "docs", "esm", "icons", "js", "landing", "legacy", "main",
               "material", "material-icons", "material-ui", "min", "mui",
               "mui-material", "packages", "production", "shared", "Textarea",
               "TextareaAutosize", "umd", "unstyled">>

Punctuation == {"/", ".", ":", "@", "[", "]"}

IsWord(tok) == tok \notin Punctuation

TokenRank(tok) == CHOOSE i \in 1..Len(Collation) : Collation[i] = tok

Sign(n) == IF n < 0 THEN -1 ELSE IF n > 0 THEN 1 ELSE 0

RECURSIVE localeCompare(_, _)
\* String.prototype.localeCompare: negative, zero or positive.
localeCompare(a, b) ==
    IF a = <<>> /\ b = <<>> THEN 0
    ELSE IF a = <<>> THEN -1
    ELSE IF b = <<>> THEN 1
    ELSE IF Head(a) = Head(b) THEN localeCompare(Tail(a), Tail(b))
    ELSE Sign(TokenRank(Head(a)) - TokenRank(Head(b)))

StartsWith(s, prefix) ==
    Len(s) >= Len(prefix) /\ SubSeq(s, 1, Len(prefix)) = prefix

EndsWith(s, suffix) ==
    Len(s) >= Len(suffix) /\ SubSeq(s, Len(s) - Len(suffix) + 1, Len(s)) = suffix

\* s.replace(/^prefix/, by)
ReplacePrefix(s, prefix, by) ==
    IF StartsWith(s, prefix) THEN by \o SubSeq(s, Len(prefix) + 1, Len(s)) ELSE s

\* s.replace(/suffix$/, by)
ReplaceSuffix(s, suffix, by) ==
    IF EndsWith(s, suffix) THEN SubSeq(s, 1, Len(s) - Len(suffix)) \o by ELSE s

\* s.replace(/^whole$/, by)
ReplaceWhole(s, whole, by) == IF s = whole THEN by ELSE s

\* .replace(/^@material-ui\/core.legacy$/, "@mui/material.legacy"): the dot of
\* the pattern is unescaped and matches any one character.
ReplaceCoreLegacy(s) ==
    IF /\ Len(s) = 6
       /\ SubSeq(s, 1, 4) = <<"@", "material-ui", "/", "core">>
       /\ s[5] \in Punctuation
       /\ s[6] = "legacy"
    THEN <<"@", "mui", "/", "material", ".", "legacy">>
    ELSE s

\* .replace(/^@material-ui\/([\w-]+)$/, "@mui/$1")
ReplaceOrg(s) ==
    IF /\ Len(s) = 4
       /\ SubSeq(s, 1, 3) = <<"@", "material-ui", "/">>
       /\ IsWord(s[4])
    THEN <<"@", "mui", "/", s[4]>>
    ELSE s

getMainBundleLabel(bundleId) ==
    IF bundleId = <<"packages", "/", "material-ui", "/", "build", "/", "umd", "/",
                    "material-ui", ".", "production", ".", "min", ".", "js">>
    THEN <<"@", "mui", "/", "material", "[", "umd", "]">>
    ELSE IF bundleId = <<"@", "material-ui", "/", "core", "/", "Textarea">>
    THEN <<"TextareaAutosize">>
    ELSE IF bundleId = <<"docs", ".", "main">>
    THEN <<"docs", ":", "/", "_app">>
    ELSE IF bundleId = <<"docs", ".", "landing">>
    THEN <<"docs", ":", "/">>
    ELSE
      LET r1 == ReplaceWhole(bundleId, <<"@", "material-ui", "/", "core">>,
                             <<"@", "mui", "/", "material">>)
          r2 == ReplaceCoreLegacy(r1)
          r3 == ReplaceWhole(r2, <<"@", "material-ui", "/", "icons">>,
                             <<"@", "mui", "/", "material-icons">>)
          r4 == ReplaceWhole(r3, <<"@", "material-ui", "/", "unstyled">>,
                             <<"@", "mui", "/", "core">>)
          r5 == ReplaceOrg(r4)
          r6 == ReplaceWhole(r5,
                   <<"packages", "/", "material-ui", "/", "material-ui", ".",
                     "production", ".", "min", ".", "js">>,
                   <<"packages", "/", "mui-material", "/", "material-ui", ".",
                     "production", ".", "min", ".", "js">>)
          r7 == ReplacePrefix(r6, <<"@", "material-ui", "/", "core", "/">>, <<>>)
      IN  ReplaceSuffix(r7, <<".", "esm">>, <<>>)

\* ------------------------------------------------------------------ numbers

RECURSIVE Gcd(_, _)
Gcd(a, b) == IF b = 0 THEN a ELSE Gcd(b, a % b)

Abs(n) == IF n < 0 THEN -n ELSE n

\* A finite number n/d in lowest terms, d > 0.
Fraction(n, d) ==
    LET g == Gcd(Abs(n), Abs(d))
        s == IF d < 0 THEN -1 ELSE 1
    IN  [kind |-> "finite", num |-> (s * n) \div g, den |-> (s * d) \div g]

Num(n) == Fraction(n, 1)

PosInfinity == [kind |-> "+Infinity", num |-> 1, den |-> 0]

NegInfinity == [kind |-> "-Infinity", num |-> -1, den |-> 0]

NaN == [kind |-> "NaN", num |-> 0, den |-> 0]

\* JavaScript's c / p on two integers.
Divide(c, p) ==
    IF p # 0 THEN Fraction(c, p)
    ELSE IF c > 0 THEN PosInfinity
    ELSE IF c < 0 THEN NegInfinity
    ELSE NaN

\* JavaScript's q - 1.
MinusOne(q) ==
    IF q.kind = "finite" THEN Fraction(q.num - q.den, q.den) ELSE q

\* ------------------------------------------------------------------ snapshots

\* const nullSnapshot = { parsed: 0, gzip: 0 };  The object lives as long as the
\* module: nullSnapshot is its content now, nullSnapshotObject its content when
\* the module is loaded.
VARIABLE nullSnapshot

nullSnapshotObject == [parsed |-> 0, gzip |-> 0]

\* The value of a missing property.
Undefined == [undefined |-> TRUE]

Sizes == 0..MaxSize

Measurements == [parsed : Sizes, gzip : Sizes]

\* A SizeSnapshot is a JSON object: its records <<bundleId, measurement>> in
\* insertion order, no bundle id twice.
Keys(snapshot) == [i \in 1..Len(snapshot) |-> snapshot[i][1]]

KeySet(snapshot) == {snapshot[i][1] : i \in 1..Len(snapshot)}

IsSnapshot(s) == \A i, j \in 1..Len(s) : s[i][1] = s[j][1] => i = j

MaxSnapshotLen == IF MaxKeys < Cardinality(BundleIds) THEN MaxKeys ELSE Cardinality(BundleIds)

SnapshotsByLen ==
    [n \in 0..MaxSnapshotLen |->
        {s \in [1..n -> BundleIds \X Measurements] : IsSnapshot(s)}]

SnapshotsUpTo(n) ==
    UNION {SnapshotsByLen[k] : k \in 0..(IF n < MaxSnapshotLen THEN n ELSE MaxSnapshotLen)}

\* snapshot[bundle].  Bundle ids are module and file names, none of them the
\* name of a property of Object.prototype, so a key that is not the snapshot's
\* own reads as undefined.
Get(snapshot, bundle) ==
    IF bundle \in KeySet(snapshot)
    THEN snapshot[CHOOSE i \in 1..Len(snapshot) : snapshot[i][1] = bundle][2]
    ELSE Undefined

\* ------------------------------------------------------------------ loader: the size diff

RECURSIVE AppendMissing(_, _)
\* keys, followed by those of more that are not among them yet, in order.
AppendMissing(keys, more) ==
    IF more = <<>> THEN keys
    ELSE AppendMissing(
           IF \E i \in 1..Len(keys) : keys[i] = Head(more)
           THEN keys ELSE Append(keys, Head(more)),
           Tail(more))

\* Mutant: the keys of both snapshots, one after the other.
bundleKeysConcatenated(base, target) == Keys(base) \o Keys(target)

\* Object.keys({ ...baseSnapshot, ...targetSnapshot }): the keys of base in
\* their order, then the keys that only target has (no bundle id is an array
\* index, which would be listed first).
bundleKeys(base, target) == AppendMissing(Keys(base), Keys(target))

\* Mutant: the default is forgotten.
OrNullSnapshotForgotten(value) == value

\* value || nullSnapshot  (a snapshot's record is an object, hence truthy)
OrNullSnapshot(value) == IF value = Undefined THEN nullSnapshot ELSE value

\* const currentSize = targetSnapshot[bundle] || nullSnapshot;
currentSize(target, bundle) == OrNullSnapshot(Get(target, bundle))

\* const previousSize = baseSnapshot[bundle] || nullSnapshot;
previousSize(base, bundle) == OrNullSnapshot(Get(base, bundle))

\* Mutant: a division by zero always gives NaN.
relativeDiffNaNOnZero(current, previous) ==
    IF previous = 0 THEN NaN ELSE MinusOne(Divide(current, previous))

\* Mutant: the 1 is not subtracted from the ratio.
relativeDiffRatio(current, previous) == Divide(current, previous)

\* current / previous - 1
relativeDiff(current, previous) == MinusOne(Divide(current, previous))

\* Mutant: the difference is taken the other way round.
MetricReversed(previous, current) ==
    [previous     |-> previous,
     current      |-> current,
     absoluteDiff |-> previous - current,
     relativeDiff |-> MinusOne(Divide(current, previous))]

\* One metric of a Size.
Metric(previous, current) ==
    [previous     |-> previous,
     current      |-> current,
     absoluteDiff |-> current - previous,
     relativeDiff |-> relativeDiff(current, previous)]

\* Reading .parsed or .gzip of undefined throws a TypeError.
EntryThrows(base, target, bundle) ==
    \/ currentSize(target, bundle) = Undefined
    \/ previousSize(base, bundle) = Undefined

\* Mutant: gzip.previous is read from currentSize.
EntryGzipPreviousFromCurrent(base, target, bundle) ==
    LET cur  == OrNullSnapshot(Get(target, bundle))
        prev == OrNullSnapshot(Get(base, bundle))
    IN  <<bundle, [parsed |-> [previous     |-> prev.parsed,
                               current      |-> cur.parsed,
                               absoluteDiff |-> cur.parsed - prev.parsed,
                               relativeDiff |-> MinusOne(Divide(cur.parsed, prev.parsed))],
                   gzip   |-> [previous     |-> cur.gzip,
                               current      |-> cur.gzip,
                               absoluteDiff |-> cur.gzip - cur.gzip,
                               relativeDiff |-> MinusOne(Divide(cur.gzip, cur.gzip))]]>>

\* const entry: [string, Size] = [bundle, {parsed: {...}, gzip: {...}}]
Entry(base, target, bundle) ==
    LET cur  == currentSize(target, bundle)
        prev == previousSize(base, bundle)
    IN  <<bundle, [parsed |-> Metric(prev.parsed, cur.parsed),
                   gzip   |-> Metric(prev.gzip, cur.gzip)]>>

\* bundleKeys.forEach((bundle) => { ...; main.push(entry); })
SizeDiff(base, target) ==
    LET keys == bundleKeys(base, target)
    IN  IF \E i \in 1..Len(keys) : EntryThrows(base, target, keys[i])
        THEN [threw |-> TRUE, main |-> <<>>]
        ELSE [threw |-> FALSE,
              main  |-> [i \in 1..Len(keys) |-> Entry(base, target, keys[i])]]

\* The loader's answer once both snapshots are there: json(data, { headers }),
\* or the framework's 500 for an exception the loader does not catch.
ComparisonResponse(base, target) ==
    LET diff == SizeDiff(base, target)
    IN  IF diff.threw
        THEN [status |-> 500, main |-> <<>>]
        ELSE [status |-> 200, main |-> diff.main]

\* ------------------------------------------------------------------ ComparisonTable

Null == [kind |-> "null", num |-> 0, den |-> 0]

\* JSON.stringify writes a non-finite number as null.
JsonNumber(x) == IF x.kind = "finite" THEN x ELSE Null

JsonMetric(m) == [m EXCEPT !.relativeDiff = JsonNumber(m.relativeDiff)]

\* useLoaderData(): the entries as they come out of the JSON response body.
useLoaderData(main) ==
    [i \in 1..Len(main) |->
        <<main[i][1], [parsed |-> JsonMetric(main[i][2].parsed),
                       gzip   |-> JsonMetric(main[i][2].gzip)]>>]

\* .map(([bundleId, size]) => [getMainBundleLabel(bundleId), { ...size, id: bundleId }])
ToRow(entry) ==
    <<getMainBundleLabel(entry[1]),
      [parsed |-> entry[2].parsed, gzip |-> entry[2].gzip, id |-> entry[1]]>>

\* Mutant: the differences are subtracted the other way round (ascending).
CompareRowsAscending(a, b) ==
    LET compareParsedDiff == Abs(a[2].parsed.absoluteDiff) - Abs(b[2].parsed.absoluteDiff)
        compareGzipDiff   == Abs(a[2].gzip.absoluteDiff) - Abs(b[2].gzip.absoluteDiff)
        compareName       == localeCompare(a[1], b[1])
    IN  IF compareParsedDiff = 0 /\ compareGzipDiff = 0 THEN compareName
        ELSE IF compareParsedDiff = 0 THEN compareGzipDiff
        ELSE compareParsedDiff

\* Mutant: the differences are compared with their signs (no Math.abs).
CompareRowsSigned(a, b) ==
    LET compareParsedDiff == b[2].parsed.absoluteDiff - a[2].parsed.absoluteDiff
        compareGzipDiff   == b[2].gzip.absoluteDiff - a[2].gzip.absoluteDiff
        compareName       == localeCompare(a[1], b[1])
    IN  IF compareParsedDiff = 0 /\ compareGzipDiff = 0 THEN compareName
        ELSE IF compareParsedDiff = 0 THEN compareGzipDiff
        ELSE compareParsedDiff

\* The comparator passed to sort: orderBy(|parsedDiff| DESC, |gzipDiff| DESC, name ASC)
CompareRows(a, b) ==
    LET compareParsedDiff == Abs(b[2].parsed.absoluteDiff) - Abs(a[2].parsed.absoluteDiff)
        compareGzipDiff   == Abs(b[2].gzip.absoluteDiff) - Abs(a[2].gzip.absoluteDiff)
        compareName       == localeCompare(a[1], b[1])
    IN  IF compareParsedDiff = 0 /\ compareGzipDiff = 0 THEN compareName
        ELSE IF compareParsedDiff = 0 THEN compareGzipDiff
        ELSE compareParsedDiff

RECURSIVE InsertRow(_, _)
\* row put behind every row of sorted that does not compare greater than it.
InsertRow(sorted, row) ==
    IF sorted = <<>> THEN <<row>>
    ELSE IF CompareRows(row, Head(sorted)) < 0 THEN <<row>> \o sorted
    ELSE <<Head(sorted)>> \o InsertRow(Tail(sorted), row)

RECURSIVE SortFrom(_, _)
SortFrom(sorted, rest) ==
    IF rest = <<>> THEN sorted
    ELSE SortFrom(InsertRow(sorted, Head(rest)), Tail(rest))

\* Array.prototype.sort with CompareRows: a stable sort.
SortRows(rowList) == SortFrom(<<>>, rowList)

\* const rows = useMemo(() => entries.map(...).sort(...), [entries])
Rows(entryList) == SortRows([i \in 1..Len(entryList) |-> ToRow(entryList[i])])

\* Mutant: the entries array itself is sorted (.sort() without the .map()
\* before it).
entriesSortedInPlace(entryList) ==
    LET sorted == Rows(entryList)
    IN  [i \in 1..Len(sorted) |->
            <<sorted[i][2].id,
              [parsed |-> sorted[i][2].parsed, gzip |-> sorted[i][2].gzip]>>]

\* The entries array after the rows were computed: .map() makes a new array
\* and .sort() sorts that one, so the array that was passed in is as it was.
entriesAfterRows(entryList) == entryList

\* ------------------------------------------------------------------ cells

\* JavaScript's change * 100: null converts to 0.
Times100(change) ==
    IF change.kind = "null" THEN Num(0)
    ELSE IF change.kind = "finite" THEN Fraction(change.num * 100, change.den)
    ELSE change

\* Number.prototype.toFixed(2) as the parts of its string: the sign, the
\* digits before and after the point (the magnitude rounded half up to
\* hundredths), or the word that stands for a value that is not finite.
toFixed2(x) ==
    IF x.kind = "finite"
    THEN LET hundredths == (2 * Abs(x.num) * 100 + x.den) \div (2 * x.den)
         IN  [sign |-> IF x.num < 0 THEN "-" ELSE "",
              int  |-> hundredths \div 100,
              frac |-> hundredths % 100,
              word |-> ""]
    ELSE [sign |-> IF x.kind = "-Infinity" THEN "-" ELSE "",
          int  |-> 0,
          frac |-> 0,
          word |-> IF x.kind = "NaN" THEN "NaN" ELSE "Infinity"]

\* /^-|^0(?:\.0+)$/.test(formatted)
ReductionOrZero(formatted) ==
    \/ formatted.sign = "-"
    \/ formatted.word = "" /\ formatted.int = 0 /\ formatted.frac = 0

\* addPercent(change, goodEmoji, badEmoji): `${formatted}% ${goodEmoji}` or
\* `+${formatted}% ${badEmoji}`.
addPercent(change, goodEmoji, badEmoji) ==
    LET formatted == toFixed2(Times100(change))
    IN  IF ReductionOrZero(formatted)
        THEN [plus |-> "", formatted |-> formatted, emoji |-> goodEmoji]
        ELSE [plus |-> "+", formatted |-> formatted, emoji |-> badEmoji]

\* prettyBytes(n, { signed: true }) for |n| < 1000: `+${n} B`, `-${|n|} B`, ` 0 B`.
prettyBytesSigned(n) ==
    [sign  |-> IF n < 0 THEN "-" ELSE IF n > 0 THEN "+" ELSE " ",
     count |-> Abs(n),
     unit  |-> "B"]

\* prettyBytes(n) for 0 <= n < 1000: `${n} B`.
prettyBytes(n) == [sign |-> "", count |-> n, unit |-> "B"]

\* formatDiff(absoluteChange, relativeChange): "--", or
\* `${trendIcon} ${prettyBytes(...)} (${addPercent(relativeChange, "", "")})`.
formatDiff(absoluteChange, relativeChange) ==
    IF absoluteChange = 0
    THEN [text |-> "--", trendIcon |-> "", bytes |-> prettyBytes(0),
          percent |-> addPercent(Num(0), "", "")]
    ELSE [text      |-> "change",
          trendIcon |-> IF absoluteChange < 0 THEN "down" ELSE "up",
          bytes     |-> prettyBytesSigned(absoluteChange),
          percent   |-> addPercent(relativeChange, "", "")]

\* <tr key={id}> with its five cells.
TableRow(row) ==
    [key          |-> row[2].id,
     bundle       |-> row[1],
     sizeChange   |-> formatDiff(row[2].parsed.absoluteDiff, row[2].parsed.relativeDiff),
     size         |-> prettyBytes(row[2].parsed.current),
     gzipChange   |-> formatDiff(row[2].gzip.absoluteDiff, row[2].gzip.relativeDiff),
     gzip         |-> prettyBytes(row[2].gzip.current)]

\* rows.map(...) in the table body.
TableBody(rowList) == [i \in 1..Len(rowList) |-> TableRow(rowList[i])]

\* ------------------------------------------------------------------ caching

\* Mutant: caching is switched off.
enableCachingOff == FALSE

\* const enableCaching = true;
enableCaching == TRUE

\* const cacheEpoch = 1;
cacheEpoch == 1

\* The query strings of the requests (url.searchParams.toString()).
QueryOfPR ==
    <<"baseCommit", "=", "a1", "&", "baseRef", "=", "master", "&",
      "circleCIBuildNumber", "=", "7", "&", "prNumber", "=", "12">>

QueryOfRebasedPR ==
    <<"baseCommit", "=", "b2", "&", "baseRef", "=", "master", "&",
      "circleCIBuildNumber", "=", "8", "&", "prNumber", "=", "12">>

Queries == {QueryOfPR, QueryOfRebasedPR}

\* crypto.subtle.digest("SHA-256", bytes) as hex: the hash is taken to be free
\* of collisions, so it stands as the tagged bytes it was computed from.
Sha256Hex(bytes) == <<"sha256">> \o bytes

\* async function digest(message): the hash of `v${cacheEpoch}-${message}`.
digest(message) == Sha256Hex(<<"v", cacheEpoch, "-">> \o message)

\* const etag = await digest(`v1-${params.toString()}`);
etagOf(query) == digest(<<"v1-">> \o query)

\* The ETag of a query as it was computed under the cacheEpoch before.
StaleEtagOf(query) == Sha256Hex(<<"v", cacheEpoch - 1, "-", "v1-">> \o query)

\* request.headers.get("if-none-match") without the header.
NoHeader == <<>>

\* The headers a client may send: none, the ETag of some query, or an ETag
\* that was computed under an earlier cacheEpoch.
IfNoneMatchValues ==
    {NoHeader}
    \cup {etagOf(q) : q \in Queries}
    \cup {StaleEtagOf(q) : q \in Queries}

Requests == [query : Queries, ifNoneMatch : IfNoneMatchValues]

\* ------------------------------------------------------------------ state

VARIABLES
    pc,         \* where the request is: "idle", "awaiting" (at the await of
                \* Promise.all), "responded", "rendered", "caught"
    s3,         \* fetchS3SizeSnapshot(baseRef, baseCommit): its state and what
                \* the network answered
    circle,     \* fetchCircleCISizeSnapshot(circleCIBuildNumber): its state and
                \* what the network answered to its two requests
    all,        \* the promise of Promise.all([...]): its state and its values
    settled,    \* the fetches in the order in which they settled
    response,   \* what the loader returned or threw
    rows,       \* the rows of the rendered ComparisonTable
    request,    \* the request: its query string and its If-None-Match header
    last,       \* the query, the ETag and the entries of the request before
    entries,    \* the entries array handed to the ComparisonTable
    table       \* the cells of the rendered table body

sizeVars == <<pc, s3, circle, all, settled, response, rows, nullSnapshot,
              request, last, entries, table>>

\* The routes under test-profile.
VARIABLES
    view,                   \* which component is followed, and how far it got
    timingsProp,            \* the timings as they were passed to TimingAnalysisMean
    timings,                \* props.timings of TimingAnalysisMean: the same array, now
    mean,                   \* const mean of TimingAnalysisMean
    shown,                  \* the text TimingAnalysisMean rendered: format(mean)
    testProfiles,           \* the profiles of the build (useTestProfileParams)
    profilesByBrowserName,  \* the aggregation of TestId
    job,                    \* the job CircleCI returned for the build
    pipeline,               \* the pipeline CircleCI returned for the job
    testProfileDetails      \* what fetchTestProfileDetails returned

profileVars == <<view, timingsProp, timings, mean, shown, testProfiles,
                 profilesByBrowserName, job, pipeline, testProfileDetails>>

\* The loader and the meta function of the route test-profile/$buildNumber.
VARIABLES
    routePc,         \* where the loader is: "idle", "awaiting" (at the await of
                     \* Promise.all), "responded", "meta"
    infos,           \* what fetchTestProfileArtifactsInfos returned
    downloads,       \* per info, the download of its artifact: state and value
    arrived,         \* the indexes of the infos in the order their downloads settled
    fetched,         \* the promise fetchTestProfiles returned: state and values
    loaderResponse,  \* what the loader returned, or that it threw
    metaResult       \* what meta returned for the loader's data, or that it threw

routeVars == <<routePc, infos, downloads, arrived, fetched, loaderResponse,
               metaResult>>

\* The comparison of the older size comparison route (part_003).
VARIABLES
    legacyEntries,   \* main and pages: the entries the two tables are given
    legacyTables     \* per table, the key and the id of its rows in row order

legacyVars == <<legacyEntries, legacyTables>>

\* An ErrorBoundary.
VARIABLES
    didThrow,        \* this.state.didThrow
    output,          \* the renders of the boundary: the props and what was returned
    reported         \* per error logged, the number of renders before it

boundaryVars == <<didThrow, output, reported>>

restVars == <<routeVars, legacyVars, boundaryVars>>

vars == <<sizeVars, profileVars, restVars>>

\* No request to the route test-profile/$buildNumber is handled, no table of
\* the earlier size comparison is rendered, and the state of an ErrorBoundary
\* is { didThrow: false } with nothing rendered.
RestIdle ==
    /\ routePc = "idle"
    /\ infos = <<>>
    /\ downloads = <<>>
    /\ arrived = <<>>
    /\ fetched = [st |-> "idle", values |-> <<>>]
    /\ loaderResponse = [kind |-> "none", status |-> 0, data |-> <<>>]
    /\ metaResult = [threw |-> FALSE, title |-> <<>>]
    /\ legacyEntries = <<>>
    /\ legacyTables = <<>>
    /\ didThrow = FALSE
    /\ output = <<>>
    /\ reported = <<>>


\* No component of the test-profile routes is followed.
ProfileIdle ==
    /\ view = "none"
    /\ timingsProp = <<>>
    /\ timings = <<>>
    /\ mean = 0
    /\ shown = <<>>
    /\ testProfiles = <<>>
    /\ profilesByBrowserName = <<>>
    /\ job = <<>>
    /\ pipeline = <<>>
    /\ testProfileDetails = <<>>

\* The size comparison route is not requested.
SizeIdle ==
    /\ pc = "none"
    /\ s3 = <<>>
    /\ circle = <<>>
    /\ all = <<>>
    /\ settled = <<>>
    /\ response = <<>>
    /\ rows = <<>>
    /\ nullSnapshot = nullSnapshotObject
    /\ request = <<>>
    /\ last = <<>>
    /\ entries = <<>>
    /\ table = <<>>

\* ------------------------------------------------------------------ network

\* What the network can answer to one request: the request is rejected, or
\* there is a response with a status and a body that parses as JSON or not.
NoAnswer == [kind |-> "none", status |-> 0, json |-> FALSE, body |-> <<>>]

Rejection == [kind |-> "rejected", status |-> 0, json |-> FALSE, body |-> <<>>]

Statuses == {200, 404}

HttpResponse(status, json, body) ==
    [kind |-> "response", status |-> status, json |-> json, body |-> body]

\* The snapshots served to a request that is followed through its fetches.
ServedSnapshots ==
    { <<>>,
      << <<idCore, [parsed |-> 1, gzip |-> 1]>> >>,
      << <<idCoreButton, [parsed |-> 1, gzip |-> 0]>>,
         <<idCore, [parsed |-> 0, gzip |-> 1]>> >> }

\* Answers to the download of a size-snapshot.json.
DownloadAnswers ==
    {Rejection}
    \cup {HttpResponse(st, FALSE, <<>>) : st \in Statuses}
    \cup {HttpResponse(st, TRUE, b) : st \in Statuses, b \in ServedSnapshots}

\* Answers to CircleCI's artifact listing: body.items as the list of paths.
ListingAnswers ==
    {Rejection}
    \cup {HttpResponse(st, FALSE, <<>>) : st \in Statuses}
    \cup {HttpResponse(st, TRUE, items) :
             st \in Statuses, items \in {<<>>, <<"size-snapshot.json">>}}

\* async function downloadSnapshot(downloadUrl): "fulfilled" with the parsed
\* body, or "rejected" (fetch rejected, or response.json() rejected).
downloadSnapshot(answer) ==
    IF answer.kind = "response" /\ answer.json THEN "fulfilled" ELSE "rejected"

\* fetchCircleCISizeSnapshot up to its download: "downloading" when the listing
\* has status 200 and names size-snapshot.json, else "rejected" (fetch or
\* response.json() rejected, artifact!.url of undefined, or the thrown Error).
circleListing(answer) ==
    IF /\ answer.kind = "response"
       /\ answer.json
       /\ answer.status = 200
       /\ \E i \in 1..Len(answer.body) : answer.body[i] = "size-snapshot.json"
    THEN "downloading"
    ELSE "rejected"

\* ------------------------------------------------------------------ Promise.all

AllIdle == [st |-> "idle", values |-> << <<>>, <<>> >>, left |-> 0]

\* Mutant: the values are kept in the order in which the inputs fulfil.
AllFulfilByArrival(p, index, value) ==
    IF p.st # "pending" THEN p
    ELSE [st     |-> IF p.left = 1 THEN "fulfilled" ELSE "pending",
          values |-> [p.values EXCEPT ![3 - p.left] = value],
          left   |-> p.left - 1]

\* Promise.all over two promises: input number index fulfils with value.
AllFulfil(p, index, value) ==
    IF p.st # "pending" THEN p
    ELSE [st     |-> IF p.left = 1 THEN "fulfilled" ELSE "pending",
          values |-> [p.values EXCEPT ![index] = value],
          left   |-> p.left - 1]

\* Promise.all: an input rejects.
AllReject(p) == IF p.st # "pending" THEN p ELSE [p EXCEPT !.st = "rejected"]

\* ------------------------------------------------------------------ actions

NoResponse == [status |-> 0, data |-> "none", main |-> <<>>, etag |-> NoHeader]

\* The request before the first one.
NoLast == [query |-> <<>>, etag |-> NoHeader, main |-> <<>>]

\* Mutant: the array is kept in the module and goes on from one call of the
\* loader to the next.
mainArrayOfModule(retained) == retained

\* const main: [string, Size][] = [];  The array is made anew in every call of
\* the loader, whatever the array of the call before (retained) holds.
mainArray(retained) == <<>>

\* The loader up to its await: both fetches are called, each runs to its first
\* await, and the loader awaits Promise.all.
LoaderStart ==
    /\ pc = "idle"
    /\ IF enableCaching /\ request.ifNoneMatch = etagOf(request.query)
       THEN /\ pc' = "responded"
            /\ response' = [status |-> 304, data |-> "none", main |-> <<>>,
                            etag |-> etagOf(request.query)]
            /\ UNCHANGED <<s3, circle, all>>
       ELSE /\ pc' = "awaiting"
            /\ s3' = [st |-> "pending", answer |-> NoAnswer]
            /\ circle' = [st |-> "listing", listing |-> NoAnswer,
                          download |-> NoAnswer]
            /\ all' = [st |-> "pending", values |-> << <<>>, <<>> >>, left |-> 2]
            /\ UNCHANGED response
    /\ UNCHANGED <<settled, rows, nullSnapshot, request, last, entries, table>>
    /\ UNCHANGED <<profileVars, restVars>>

\* The S3 download is answered.
S3Answer ==
    /\ s3.st = "pending"
    /\ \E answer \in DownloadAnswers :
         LET st == downloadSnapshot(answer)
         IN  /\ s3' = [st |-> st, answer |-> answer]
             /\ all' = IF st = "fulfilled"
                       THEN AllFulfil(all, 1, answer.body) ELSE AllReject(all)
    /\ settled' = Append(settled, "s3")
    /\ UNCHANGED <<pc, circle, response, rows, nullSnapshot, request, last,
                   entries, table>>
    /\ UNCHANGED <<profileVars, restVars>>

\* CircleCI's artifact listing is answered.
CircleListingAnswer ==
    /\ circle.st = "listing"
    /\ \E answer \in ListingAnswers :
         LET st == circleListing(answer)
         IN  /\ circle' = [circle EXCEPT !.st = st, !.listing = answer]
             /\ all' = IF st = "rejected" THEN AllReject(all) ELSE all
             /\ settled' = IF st = "rejected" THEN Append(settled, "circle") ELSE settled
    /\ UNCHANGED <<pc, s3, response, rows, nullSnapshot, request, last,
                   entries, table>>
    /\ UNCHANGED <<profileVars, restVars>>

\* The download of CircleCI's size-snapshot.json is answered.
CircleDownloadAnswer ==
    /\ circle.st = "downloading"
    /\ \E answer \in DownloadAnswers :
         LET st == downloadSnapshot(answer)
         IN  /\ circle' = [circle EXCEPT !.st = st, !.download = answer]
             /\ all' = IF st = "fulfilled"
                       THEN AllFulfil(all, 2, answer.body) ELSE AllReject(all)
    /\ settled' = Append(settled, "circle")
    /\ UNCHANGED <<pc, s3, response, rows, nullSnapshot, request, last,
                   entries, table>>
    /\ UNCHANGED <<profileVars, restVars>>

\* The loader after its await: the 404 thrown from .catch, or the size diff of
\* [baseSnapshot, targetSnapshot] = the values of Promise.all.
LoaderResume ==
    /\ pc = "awaiting"
    /\ all.st \in {"fulfilled", "rejected"}
    /\ pc' = "responded"
    /\ response' =
         IF all.st = "rejected"
         THEN [status |-> 404, data |-> "prNumber", main |-> <<>>,
               etag |-> NoHeader]
         ELSE LET r == ComparisonResponse(all.values[1], all.values[2])
              IN  [status |-> r.status,
                   data   |-> IF r.status = 200 THEN "main" ELSE "none",
                   main   |-> IF r.status = 200
                              THEN mainArray(last.main) \o r.main ELSE <<>>,
                   etag   |-> IF r.status = 200
                              THEN etagOf(request.query) ELSE NoHeader]
    /\ UNCHANGED <<s3, circle, all, settled, rows, nullSnapshot, request, last,
                   entries, table>>
    /\ UNCHANGED <<profileVars, restVars>>

\* SizeComparison renders the ComparisonTable from the loader data.
TableRender ==
    /\ pc = "responded"
    /\ response.status = 200
    /\ pc' = "rendered"
    /\ rows' = Rows(useLoaderData(response.main))
    /\ entries' = entriesAfterRows(useLoaderData(response.main))
    /\ table' = TableBody(rows')
    /\ UNCHANGED <<s3, circle, all, settled, response, nullSnapshot, request, last>>
    /\ UNCHANGED <<profileVars, restVars>>

\* CatchBoundary renders the thrown response.
CatchRender ==
    /\ pc = "responded"
    /\ response.status = 404
    /\ pc' = "caught"
    /\ UNCHANGED <<s3, circle, all, settled, response, rows, nullSnapshot,
                   request, last, entries, table>>
    /\ UNCHANGED <<profileVars, restVars>>

\* The response is out and the next request arrives: a new call of the loader,
\* in the same module.
NextRequest ==
    /\ \/ pc \in {"rendered", "caught"}
       \/ pc = "responded" /\ response.status \notin {200, 404}
    /\ pc' = "idle"
    /\ \E r \in Requests : request' = r
    /\ last' = [query |-> request.query, etag |-> response.etag,
                main |-> response.main]
    /\ s3' = [st |-> "idle", answer |-> NoAnswer]
    /\ circle' = [st |-> "idle", listing |-> NoAnswer, download |-> NoAnswer]
    /\ all' = AllIdle
    /\ settled' = <<>>
    /\ response' = NoResponse
    /\ rows' = <<>>
    /\ entries' = <<>>
    /\ table' = <<>>
    /\ UNCHANGED nullSnapshot
    /\ UNCHANGED <<profileVars, restVars>>



\* ------------------------------------------------------------------ specifications

\* The size diff and its table over all snapshot pairs within the bounds, and
\* over every snapshot paired with itself: the request starts where both
\* fetches have fulfilled with the two snapshots.
Init ==
    /\ pc = "awaiting"
    /\ \E base \in SnapshotsUpTo(MaxKeys) :
         \E target \in SnapshotsUpTo(MaxKeys - Len(base)) \cup {base} :
           /\ s3 = [st |-> "fulfilled", answer |-> HttpResponse(200, TRUE, base)]
           /\ circle = [st       |-> "fulfilled",
                        listing  |-> HttpResponse(200, TRUE, <<"size-snapshot.json">>),
                        download |-> HttpResponse(200, TRUE, target)]
           /\ all = [st |-> "fulfilled", values |-> <<base, target>>, left |-> 0]
    /\ settled = <<"s3", "circle">>
    /\ response = NoResponse
    /\ rows = <<>>
    /\ nullSnapshot = nullSnapshotObject
    /\ request = [query |-> QueryOfPR, ifNoneMatch |-> NoHeader]
    /\ last = NoLast
    /\ entries = <<>>
    /\ table = <<>>
    /\ ProfileIdle
    /\ RestIdle

Next == LoaderResume \/ TableRender

Spec == Init /\ [][Next]_vars

\* Requests one after the other, each followed from its start through its
\* fetches to its response.
InitLoader ==
    /\ pc = "idle"
    /\ s3 = [st |-> "idle", answer |-> NoAnswer]
    /\ circle = [st |-> "idle", listing |-> NoAnswer, download |-> NoAnswer]
    /\ all = AllIdle
    /\ settled = <<>>
    /\ response = NoResponse
    /\ rows = <<>>
    /\ nullSnapshot = nullSnapshotObject
    /\ request \in Requests
    /\ last = NoLast
    /\ entries = <<>>
    /\ table = <<>>
    /\ ProfileIdle
    /\ RestIdle

NextLoader ==
    \/ LoaderStart
    \/ S3Answer
    \/ CircleListingAnswer
    \/ CircleDownloadAnswer
    \/ LoaderResume
    \/ TableRender
    \/ CatchRender
    \/ NextRequest

SpecLoader == InitLoader /\ [][NextLoader]_vars

\* ------------------------------------------------------------------ TimingAnalysisMean

RECURSIVE InsertTiming(_, _)
\* t put behind every timing of sorted that (a, b) => a - b does not order
\* after it.
InsertTiming(sorted, t) ==
    IF sorted = <<>> THEN <<t>>
    ELSE IF t - Head(sorted) < 0 THEN <<t>> \o sorted
    ELSE <<Head(sorted)>> \o InsertTiming(Tail(sorted), t)

RECURSIVE SortTimingsFrom(_, _)
SortTimingsFrom(sorted, rest) ==
    IF rest = <<>> THEN sorted
    ELSE SortTimingsFrom(InsertTiming(sorted, Head(rest)), Tail(rest))

\* Mutant: the timings are left in the order in which they were passed.
TimingsAsPassed(list) == list

\* timings.sort((a, b) => a - b)
SortTimings(list) == SortTimingsFrom(<<>>, list)

\* timings.length >> 1
HalfLength(list) == Len(list) \div 2

\* function formatMs(ms) { return ms.toFixed(2); }
formatMs(ms) == toFixed2(Num(ms))

\* The lists of timings a TimingAnalysisMean is given.
TimingLists ==
    UNION { [1..n -> 0..MaxTiming] : n \in 1..MaxTimings }

\* function TimingAnalysisMean(props): timings is sorted in place, mean is
\* the element at index timings.length >> 1, and format(mean) is rendered.
TimingAnalysisMean ==
    /\ view = "TimingAnalysisMean"
    /\ view' = "TimingAnalysisMean rendered"
    /\ timings' = SortTimings(timings)
    /\ mean' = timings'[HalfLength(timings) + 1]
    /\ shown' = formatMs(mean')
    /\ UNCHANGED <<timingsProp, testProfiles, profilesByBrowserName, job,
                   pipeline, testProfileDetails>>
    /\ UNCHANGED <<sizeVars, restVars>>

\* One TimingAnalysisMean over every list of timings within the bounds.
InitTimings ==
    /\ view = "TimingAnalysisMean"
    /\ timingsProp \in TimingLists
    /\ timings = timingsProp
    /\ mean = 0
    /\ shown = <<>>
    /\ testProfiles = <<>>
    /\ profilesByBrowserName = <<>>
    /\ job = <<>>
    /\ pipeline = <<>>
    /\ testProfileDetails = <<>>
    /\ SizeIdle
    /\ RestIdle

NextTimings == TimingAnalysisMean

SpecTimings == InitTimings /\ [][NextTimings]_vars

\* ------------------------------------------------------------------ TestId

BrowserNames == {"chrome", "firefox"}

\* The test id of the route (params.testId) and another test of the build.
testId == "test of the route"

otherTestId == "another test"

\* The ProfilerReport at index i of the profile number p of the build: the
\* durations fall and the times rise from one profile to the next.
ProfilerReport(p, i) ==
    [phase          |-> IF i = 1 THEN "mount" ELSE "update",
     actualDuration |-> 10 * (MaxProfiles + 1 - p) + i,
     baseDuration   |-> 100 + 10 * (MaxProfiles + 1 - p) + i,
     startTime      |-> 200 + 10 * p + i,
     commitTime     |-> 300 + 10 * p + i,
     interactions   |-> <<p, i>>]

\* What a profile may hold for the test id: a list of 0..MaxReports reports,
\* or no property of that name (written as the count -1).
ReportCounts == (-1)..MaxReports

\* The TestProfile number p of the build, of a browser: its profile maps test
\* ids to lists of reports.
TestProfile(p, browserName, count) ==
    [browserName |-> browserName,
     profile     |->
        IF count < 0
        THEN (otherTestId :> <<ProfilerReport(p, 1)>>)
        ELSE (otherTestId :> <<ProfilerReport(p, 1)>>)
             @@ (testId :> [i \in 1..count |-> ProfilerReport(p, i)])]

\* The lists of test profiles a build may have.
TestProfileLists ==
    UNION { { [p \in 1..n |-> TestProfile(p, shape[p][1], shape[p][2])] :
                shape \in [1..n -> BrowserNames \X ReportCounts] } :
            n \in 0..MaxProfiles }

\* The entry a report starts at its index: every timing in a list of its own.
newInteraction(report) ==
    [phase          |-> report.phase,
     actualDuration |-> <<report.actualDuration>>,
     baseDuration   |-> <<report.baseDuration>>,
     startTime      |-> <<report.startTime>>,
     commitTime     |-> <<report.commitTime>>,
     interactions   |-> report.interactions]

\* Mutant: the commit time of the report is not pushed.
pushReportWithoutCommitTime(interaction, report) ==
    [interaction EXCEPT
        !.actualDuration = Append(@, report.actualDuration),
        !.baseDuration   = Append(@, report.baseDuration),
        !.startTime      = Append(@, report.startTime)]

\* interaction.actualDuration.push(...); ... interaction.commitTime.push(...);
pushReport(interaction, report) ==
    [interaction EXCEPT
        !.actualDuration = Append(@, report.actualDuration),
        !.baseDuration   = Append(@, report.baseDuration),
        !.startTime      = Append(@, report.startTime),
        !.commitTime     = Append(@, report.commitTime)]

\* list[index] = value on an array: the array grows to index, with holes
\* (undefined) where nothing was assigned.
AssignAt(list, index, value) ==
    [k \in 1..(IF index > Len(list) THEN index ELSE Len(list)) |->
        IF k = index THEN value
        ELSE IF k <= Len(list) THEN list[k]
        ELSE Undefined]

RECURSIVE forEachReport(_, _, _)
\* testProfiles.forEach((testProfile, interactionIndex) => ...) from
\* interactionIndex on, on the list of the browser.
forEachReport(list, reports, interactionIndex) ==
    IF interactionIndex > Len(reports) THEN list
    ELSE LET report == reports[interactionIndex]
             undefined == \/ interactionIndex > Len(list)
                          \/ list[interactionIndex] = Undefined
         IN  forEachReport(
                 IF undefined
                 THEN AssignAt(list, interactionIndex, newInteraction(report))
                 ELSE [list EXCEPT ![interactionIndex] = pushReport(@, report)],
                 reports, interactionIndex + 1)

\* The body of testProfiles.forEach(({ browserName, profile }) => ...).
addTestProfile(byBrowserName, testProfile) ==
    LET browserName == testProfile.browserName
        profile == testProfile.profile
    IN  IF testId \notin DOMAIN profile THEN byBrowserName
        ELSE IF ~(Len(profile[testId]) > 0) THEN byBrowserName
        ELSE IF browserName \notin DOMAIN byBrowserName
        THEN (browserName :>
                 [i \in 1..Len(profile[testId]) |->
                     newInteraction(profile[testId][i])]) @@ byBrowserName
        ELSE [byBrowserName EXCEPT
                 ![browserName] = forEachReport(@, profile[testId], 1)]

RECURSIVE forEachTestProfile(_, _)
forEachTestProfile(byBrowserName, profiles) ==
    IF profiles = <<>> THEN byBrowserName
    ELSE forEachTestProfile(addTestProfile(byBrowserName, Head(profiles)),
                            Tail(profiles))

\* const profilesByBrowserName = {};
NoBrowser == [browserName \in {} |-> <<>>]

\* The aggregation of TestId over the profiles of the build.
aggregate(profiles) == forEachTestProfile(NoBrowser, profiles)

\* The render of TestId: the aggregation, and the table it returns.
TestId ==
    /\ view = "TestId"
    /\ view' = "TestId aggregated"
    /\ profilesByBrowserName' = aggregate(testProfiles)
    /\ UNCHANGED <<timingsProp, timings, mean, shown, testProfiles, job,
                   pipeline, testProfileDetails>>
    /\ UNCHANGED <<sizeVars, restVars>>

\* The cells of the table render: two TimingAnalysisMean per row, which sort
\* render.actualDuration and render.baseDuration in place.
TestIdCells ==
    /\ view = "TestId aggregated"
    /\ view' = "TestId rendered"
    /\ profilesByBrowserName' =
         [browserName \in DOMAIN profilesByBrowserName |->
            [i \in 1..Len(profilesByBrowserName[browserName]) |->
                [profilesByBrowserName[browserName][i] EXCEPT
                    !.actualDuration = SortTimings(@),
                    !.baseDuration   = SortTimings(@)]]]
    /\ UNCHANGED <<timingsProp, timings, mean, shown, testProfiles, job,
                   pipeline, testProfileDetails>>
    /\ UNCHANGED <<sizeVars, restVars>>

\* One render of TestId over every list of test profiles within the bounds.
InitTestId ==
    /\ view = "TestId"
    /\ testProfiles \in TestProfileLists
    /\ profilesByBrowserName = NoBrowser
    /\ timingsProp = <<>>
    /\ timings = <<>>
    /\ mean = 0
    /\ shown = <<>>
    /\ job = <<>>
    /\ pipeline = <<>>
    /\ testProfileDetails = <<>>
    /\ SizeIdle
    /\ RestIdle

NextTestId == TestId \/ TestIdCells

SpecTestId == InitTestId /\ [][NextTestId]_vars

\* ------------------------------------------------------------------ test profile details

\* pipeline.vcs.origin_repository_url
OriginRepositoryUrls ==
    { <<"https", ":", "/", "/", "github.com", "/", "mui-org", "/", "material-ui">>,
      <<"https", ":", "/", "/", "github.com", "/", "eps1lon", "/", "material-ui">> }

\* pipeline.vcs.revision, character by character.
Revisions ==
    { <<"0", "a", "1", "b", "2", "c", "3", "d", "4", "e", "5", "f">>,
      <<"0", "a", "1", "b", "2", "c", "3", "d", "9", "9", "9", "9">>,
      <<"f", "e", "d", "c", "b", "a", "9", "8", "7", "6", "5", "4">> }

\* The parts of a branch name between its slashes that are all digits (\d+).
Digits == {"7", "12"}

\* The refs under which CircleCI runs a pull request: pull/<N>/head and
\* pull/<N>/merge.
PullRequestRefs ==
    { <<"pull", "/", n, "/", kind>> : n \in Digits, kind \in {"head", "merge"} }

\* pipeline.vcs.branch, as the parts between its slashes and the slashes: a
\* branch of the repository, among them one that was named under pull/<N>/,
\* or the ref of a pull request.
BranchNames ==
    { <<"master">>, <<"next">>, <<"pull-request-template">>,
      <<"feature", "/", "pull", "/", "docs">>,
      <<"pull", "/", "12", "/", "fix-typo">> }
    \cup PullRequestRefs

\* pipeline.vcs of the pipelines CircleCI may return: with a branch, or
\* without one (branch === undefined).
Pipelines ==
    { ("origin_repository_url" :> url) @@ ("revision" :> revision) :
        url \in OriginRepositoryUrls, revision \in Revisions }
    \cup { ("branch" :> branch) @@ ("origin_repository_url" :> url)
             @@ ("revision" :> revision) :
           branch \in BranchNames, url \in OriginRepositoryUrls,
           revision \in Revisions }

\* job.web_url
WebUrls ==
    { <<"https", ":", "/", "/", "app.circleci.com", "/", "jobs", "/", "1">>,
      <<"https", ":", "/", "/", "app.circleci.com", "/", "jobs", "/", "2">> }

\* The positions at which /pull\/(\d+)\// matches in branch.
PullMatches(branch) ==
    { k \in 1..(Len(branch) - 3) :
        /\ branch[k] = "pull"
        /\ branch[k + 1] = "/"
        /\ branch[k + 2] \in Digits
        /\ branch[k + 3] = "/" }

\* The positions at which /pull\/(\d+)\/(head|merge)/ matches in branch.
PullHeadOrMergeMatches(branch) ==
    { k \in PullMatches(branch) :
        k + 4 <= Len(branch) /\ branch[k + 4] \in {"head", "merge"} }

\* String.prototype.match on a set of match positions: null without a match
\* (matched = FALSE), else the groups of the leftmost match.
Match(branch, positions) ==
    IF positions = {}
    THEN [matched |-> FALSE, groups |-> <<>>]
    ELSE LET k == CHOOSE p \in positions : \A q \in positions : p <= q
         IN  [matched |-> TRUE,
              groups  |-> [g \in 1..(IF k + 4 <= Len(branch) THEN 2 ELSE 1) |->
                              branch[k + 2 * g]]]

\* Mutant: the second group of the match is put into the URL.
computeReviewUrlOfSecondGroup(p) ==
    LET pullMatch == IF "branch" \in DOMAIN p.vcs
                     THEN Match(p.vcs.branch, PullHeadOrMergeMatches(p.vcs.branch))
                     ELSE [matched |-> FALSE, groups |-> <<>>]
    IN  IF ~pullMatch.matched
        THEN p.vcs.origin_repository_url \o <<"/", "commit", "/">>
             \o p.vcs.revision \o <<"/">>
        ELSE p.vcs.origin_repository_url \o <<"/", "pull", "/">>
             \o <<pullMatch.groups[2]>> \o <<"/">>

\* function computeReviewUrl(pipeline)
computeReviewUrl(p) ==
    LET pullMatch == IF "branch" \in DOMAIN p.vcs
                     THEN Match(p.vcs.branch, PullHeadOrMergeMatches(p.vcs.branch))
                     ELSE [matched |-> FALSE, groups |-> <<>>]
    IN  IF ~pullMatch.matched
        THEN p.vcs.origin_repository_url \o <<"/", "commit", "/">>
             \o p.vcs.revision \o <<"/">>
        ELSE p.vcs.origin_repository_url \o <<"/", "pull", "/">>
             \o <<pullMatch.groups[1]>> \o <<"/">>

\* function computeLabel(pipeline)
computeLabel(p) ==
    IF "branch" \notin DOMAIN p.vcs THEN <<"Unknown">>
    ELSE LET pullMatch == Match(p.vcs.branch, PullMatches(p.vcs.branch))
         IN  IF pullMatch.matched THEN <<"#", pullMatch.groups[1]>>
             ELSE p.vcs.branch \o <<" ", "(">>
                  \o SubSeq(p.vcs.revision, 1, 8) \o <<")">>

\* fetchTestProfileDetails up to its second await: the job is there.
JobAnswer ==
    /\ view = "fetchTestProfileDetails"
    /\ view' = "fetchCircleCIPipelineDetails"
    /\ \E url \in WebUrls : job' = [web_url |-> url]
    /\ UNCHANGED <<timingsProp, timings, mean, shown, testProfiles,
                   profilesByBrowserName, pipeline, testProfileDetails>>
    /\ UNCHANGED <<sizeVars, restVars>>

\* fetchTestProfileDetails after its second await: the pipeline is there, and
\* the details are returned.
PipelineAnswer ==
    /\ view = "fetchCircleCIPipelineDetails"
    /\ view' = "testProfileDetails"
    /\ \E vcs \in Pipelines :
         /\ pipeline' = [vcs |-> vcs]
         /\ testProfileDetails' =
              [codeUrl   |-> vcs.origin_repository_url \o <<"/", "tree", "/">>
                             \o vcs.revision \o <<"/">>,
               label     |-> computeLabel(pipeline'),
               reviewUrl |-> computeReviewUrl(pipeline'),
               webUrl    |-> job.web_url]
    /\ UNCHANGED <<timingsProp, timings, mean, shown, testProfiles,
                   profilesByBrowserName, job>>
    /\ UNCHANGED <<sizeVars, restVars>>

\* One call of fetchTestProfileDetails.
InitDetails ==
    /\ view = "fetchTestProfileDetails"
    /\ timingsProp = <<>>
    /\ timings = <<>>
    /\ mean = 0
    /\ shown = <<>>
    /\ testProfiles = <<>>
    /\ profilesByBrowserName = <<>>
    /\ job = <<>>
    /\ pipeline = <<>>
    /\ testProfileDetails = <<>>
    /\ SizeIdle
    /\ RestIdle

NextDetails == JobAnswer \/ PipelineAnswer

SpecDetails == InitDetails /\ [][NextDetails]_vars

\* Nothing of the program runs yet.
InitRest == SizeIdle /\ ProfileIdle /\ RestIdle

\* ------------------------------------------------------------------ test profile route

\* The artifacts CircleCI may list for a build ({ pretty_path, url }): the
\* profiler reports of two browsers, and an artifact that is no report.
Artifacts ==
    {[pretty_path |-> <<"react-profiler-report", "/", "karma", "/", "chrome", "/",
                        "101", ".", "json">>,
      url         |-> "https://circleci.com/artifacts/chrome/101.json"],
     [pretty_path |-> <<"react-profiler-report", "/", "karma", "/", "firefox", "/",
                        "102", ".", "json">>,
      url         |-> "https://circleci.com/artifacts/firefox/102.json"],
     [pretty_path |-> <<"size-snapshot", ".", "json">>,
      url         |-> "https://circleci.com/artifacts/size-snapshot.json"]}

\* parseInt(timestampRaw, 10) on the runs of digits of the paths.
parseInt10 == ("101" :> 101) @@ ("102" :> 102)

\* pretty_path.match(/^react-profiler-report\/karma\/([^/]+)\/(\d+)\.json$/):
\* the first group is everything between the third and the last slash, if
\* there is no slash in it.
ReportMatch(path) ==
    LET n == Len(path)
        matched ==
            /\ n >= 9
            /\ SubSeq(path, 1, 4) = <<"react-profiler-report", "/", "karma", "/">>
            /\ \A k \in 5..(n - 4) : path[k] # "/"
            /\ path[n - 3] = "/"
            /\ path[n - 2] \in DOMAIN parseInt10
            /\ path[n - 1] = "."
            /\ path[n] = "json"
    IN  IF matched
        THEN [matched |-> TRUE, browserName |-> SubSeq(path, 5, n - 4),
              timestampRaw |-> path[n - 2]]
        ELSE [matched |-> FALSE, browserName |-> <<>>, timestampRaw |-> ""]

\* fetchTestProfileArtifactsInfos on a listing: .map(...).filter(not null).
fetchTestProfileArtifactsInfos(listing) ==
    LET NotNull(artifactInfo) == ReportMatch(artifactInfo.pretty_path).matched
        kept == SelectSeq(listing, NotNull)
        Info(artifactInfo) ==
            LET match == ReportMatch(artifactInfo.pretty_path)
            IN  [browserName |-> match.browserName,
                 timestamp   |-> parseInt10[match.timestampRaw],
                 url         |-> artifactInfo.url]
    IN  [i \in 1..Len(kept) |-> Info(kept[i])]

\* The JSON a report artifact holds: the reports of the build per test id.
ArtifactBody(url) ==
    IF url = "https://circleci.com/artifacts/chrome/101.json"
    THEN (testId :> <<ProfilerReport(1, 1), ProfilerReport(1, 2)>>)
    ELSE (testId :> <<ProfilerReport(2, 1)>>) @@ (otherTestId :> <<>>)

\* Mutant: the values of Promise.all are in the order in which the downloads
\* settled.
AllValuesByArrival(downloadList, arrival) ==
    [k \in 1..Len(arrival) |-> downloadList[arrival[k]].value]

\* The values Promise.all fulfils with: those of its inputs, by position.
AllValues(downloadList, arrival) ==
    [i \in 1..Len(downloadList) |-> downloadList[i].value]

\* meta: the title from data.testProfileDetails.label; reading .label of
\* undefined throws a TypeError.
meta(data) ==
    IF "testProfileDetails" \in DOMAIN data
    THEN [threw |-> FALSE,
          title |-> data.testProfileDetails.label
                    \o <<" ", "|", " ", "Profile", " ", "Dashboard">>]
    ELSE [threw |-> TRUE, title |-> <<>>]

\* The loader up to its await: fetchTestProfiles and fetchTestProfileDetails
\* are called, each runs to its first await, and the loader awaits
\* Promise.all.
RouteLoaderStart ==
    /\ routePc = "idle"
    /\ routePc' = "awaiting"
    /\ fetched' = [st |-> "listing", values |-> <<>>]
    /\ view' = "fetchTestProfileDetails"
    /\ UNCHANGED <<infos, downloads, arrived, loaderResponse, metaResult>>
    /\ UNCHANGED <<timingsProp, timings, mean, shown, testProfiles,
                   profilesByBrowserName, job, pipeline, testProfileDetails>>
    /\ UNCHANGED <<sizeVars, legacyVars, boundaryVars>>

\* The artifact listing is answered: fetchTestProfiles maps every info to its
\* download, which starts all downloads, and returns Promise.all of them.
ArtifactsAnswer ==
    /\ routePc = "awaiting"
    /\ fetched.st = "listing"
    /\ \/ /\ fetched' = [st |-> "rejected", values |-> <<>>]
          /\ UNCHANGED <<infos, downloads>>
       \/ \E listing \in UNION { [1..n -> Artifacts] : n \in 0..MaxArtifacts } :
            /\ infos' = fetchTestProfileArtifactsInfos(listing)
            /\ downloads' = [i \in 1..Len(infos') |->
                                [st |-> "pending", value |-> <<>>]]
            /\ fetched' = IF Len(infos') = 0
                          THEN [st |-> "fulfilled", values |-> <<>>]
                          ELSE [st |-> "pending", values |-> <<>>]
    /\ UNCHANGED <<routePc, arrived, loaderResponse, metaResult>>
    /\ UNCHANGED <<sizeVars, profileVars, legacyVars, boundaryVars>>

\* The download of one artifact settles: its callback returns the profile, or
\* fetch or response.json() rejects.
ProfileDownloadAnswer ==
    /\ \E i \in 1..Len(downloads) : \E ok \in BOOLEAN :
         /\ downloads[i].st = "pending"
         /\ downloads' = [downloads EXCEPT ![i] =
                IF ok
                THEN [st    |-> "fulfilled",
                      value |-> [browserName |-> infos[i].browserName,
                                 profile     |-> ArtifactBody(infos[i].url),
                                 timestamp   |-> infos[i].timestamp]]
                ELSE [st |-> "rejected", value |-> <<>>]]
         /\ arrived' = Append(arrived, i)
         /\ fetched' =
              IF fetched.st # "pending" THEN fetched
              ELSE IF ~ok THEN [st |-> "rejected", values |-> <<>>]
              ELSE IF \A j \in 1..Len(downloads') : downloads'[j].st = "fulfilled"
              THEN [st |-> "fulfilled", values |-> AllValues(downloads', arrived')]
              ELSE fetched
    /\ UNCHANGED <<routePc, infos, loaderResponse, metaResult>>
    /\ UNCHANGED <<sizeVars, profileVars, legacyVars, boundaryVars>>

\* The loader after its await: it throws what Promise.all rejected with, or
\* returns the 404 for a build without profiles, or the data.  The build
\* number, +params.buildNumber, is 209850.
RouteLoaderResume ==
    /\ routePc = "awaiting"
    /\ \/ fetched.st = "rejected"
       \/ fetched.st = "fulfilled" /\ view = "testProfileDetails"
    /\ routePc' = "responded"
    /\ loaderResponse' =
         IF fetched.st = "rejected"
         THEN [kind |-> "thrown", status |-> 500, data |-> <<>>]
         ELSE IF Len(fetched.values) = 0
         THEN [kind |-> "response", status |-> 404,
               data |-> ("buildNumber" :> 209850)]
         ELSE [kind |-> "response", status |-> 200,
               data |-> ("testProfileDetails" :> testProfileDetails)
                        @@ ("testProfiles" :> fetched.values)]
    /\ UNCHANGED <<infos, downloads, arrived, fetched, metaResult>>
    /\ UNCHANGED <<sizeVars, profileVars, legacyVars, boundaryVars>>

\* meta is called with the data of the response the loader returned.
RouteMeta ==
    /\ routePc = "responded"
    /\ loaderResponse.kind = "response"
    /\ routePc' = "meta"
    /\ metaResult' = meta(loaderResponse.data)
    /\ UNCHANGED <<infos, downloads, arrived, fetched, loaderResponse>>
    /\ UNCHANGED <<sizeVars, profileVars, legacyVars, boundaryVars>>

NextRoute ==
    \/ RouteLoaderStart
    \/ ArtifactsAnswer
    \/ ProfileDownloadAnswer
    \/ JobAnswer
    \/ PipelineAnswer
    \/ RouteLoaderResume
    \/ RouteMeta

SpecRoute == InitRest /\ [][NextRoute]_vars

\* ------------------------------------------------------------------ the earlier size comparison

\* The bundle ids of the snapshots given to the earlier Comparison: two
\* modules, a page of the docs and the chunk the pages share.
LegacyBundleIds ==
    {idCoreButton,
     <<"@", "material-ui", "/", "core", "/", "Button", ".", "esm">>,
     <<"docs", ":", "/", "_app">>,
     <<"docs", ":", "shared">>}

\* The snapshots: up to MaxKeys distinct bundles, every bundle of one
\* snapshot with the same measurement.
LegacySnapshots ==
    UNION { { [i \in 1..n |-> <<ids[i], [parsed |-> size, gzip |-> size]>>] :
                ids \in {s \in [1..n -> LegacyBundleIds] :
                            \A i, j \in 1..n : s[i] = s[j] => i = j},
                size \in Sizes } :
            n \in 0..(IF MaxKeys < Cardinality(LegacyBundleIds)
                      THEN MaxKeys ELSE Cardinality(LegacyBundleIds)) }

\* getMainBundleLabel of the earlier route.
getMainBundleLabelLegacy(bundleId) ==
    IF bundleId = <<"packages", "/", "material-ui", "/", "build", "/", "umd", "/",
                    "material-ui", ".", "production", ".", "min", ".", "js">>
    THEN <<"@", "material-ui", "/", "core", "[", "umd", "]">>
    ELSE IF bundleId = <<"@", "material-ui", "/", "core", "/", "Textarea">>
    THEN <<"TextareaAutosize">>
    ELSE IF bundleId = <<"docs", ".", "main">>
    THEN <<"docs", ":", "/", "_app">>
    ELSE IF bundleId = <<"docs", ".", "landing">>
    THEN <<"docs", ":", "/">>
    ELSE ReplaceSuffix(
             ReplacePrefix(bundleId, <<"@", "material-ui", "/", "core", "/">>, <<>>),
             <<".", "esm">>, <<>>)

\* getPageBundleLabel: a page without its "docs:", anything else as it is.
getPageBundleLabel(bundleId) ==
    IF StartsWith(bundleId, <<"docs", ":", "/">>)
    THEN ReplacePrefix(bundleId, <<"docs", ":">>, <<>>)
    ELSE bundleId

\* The entries of Comparison: <<main, pages>>, a bundle whose id starts with
\* "docs:" in pages and every other one in main; a bundle a snapshot does not
\* have counts with the nullSnapshot of this route.
LegacyComparisonEntries(base, target) ==
    LET keys == bundleKeys(base, target)
        Size(value) == IF value = Undefined THEN nullSnapshotObject ELSE value
        Entry_(bundle) ==
            LET cur  == Size(Get(target, bundle))
                prev == Size(Get(base, bundle))
            IN  <<bundle, [parsed |-> Metric(prev.parsed, cur.parsed),
                           gzip   |-> Metric(prev.gzip, cur.gzip)]>>
        all_ == [i \in 1..Len(keys) |-> Entry_(keys[i])]
        IsPage(entry) == StartsWith(entry[1], <<"docs", ":">>)
        IsMain(entry) == ~IsPage(entry)
    IN  <<SelectSeq(all_, IsMain), SelectSeq(all_, IsPage)>>

\* The rows of one CompareTable: the label, the sizes and the id, sorted
\* with the comparator of CompareRows.  The prop getBundleLabel of the table
\* of the pages is getPageBundleLabel, that of the modules getMainBundleLabel.
LegacyRows(entryList, pages) ==
    SortRows([i \in 1..Len(entryList) |->
                <<IF pages THEN getPageBundleLabel(entryList[i][1])
                  ELSE getMainBundleLabelLegacy(entryList[i][1]),
                  [parsed |-> entryList[i][2].parsed,
                   gzip   |-> entryList[i][2].gzip,
                   id     |-> entryList[i][1]]>>])

\* Comparison is rendered with two snapshots and computes its entries.
LegacyComparison ==
    /\ legacyEntries = <<>>
    /\ \E base \in LegacySnapshots, target \in LegacySnapshots :
          legacyEntries' = LegacyComparisonEntries(base, target)
    /\ UNCHANGED legacyTables
    /\ UNCHANGED <<sizeVars, profileVars, routeVars, boundaryVars>>

\* The two CompareTable elements are rendered: <<Modules, Pages>>, each the
\* list of its rows, <tr key={label}> with the label of the bundle id.
LegacyCompareTable ==
    /\ legacyEntries # <<>>
    /\ legacyTables = <<>>
    /\ legacyTables' =
          LET mainRows == LegacyRows(legacyEntries[1], FALSE)
              pageRows == LegacyRows(legacyEntries[2], TRUE)
          IN  << [i \in 1..Len(mainRows) |->
                    [key |-> mainRows[i][1], id |-> mainRows[i][2].id]],
                 [i \in 1..Len(pageRows) |->
                    [key |-> pageRows[i][1], id |-> pageRows[i][2].id]] >>
    /\ UNCHANGED legacyEntries
    /\ UNCHANGED <<sizeVars, profileVars, routeVars, boundaryVars>>

NextLegacy ==
    \/ LegacyComparison
    \/ LegacyCompareTable

SpecLegacy == InitRest /\ [][NextLegacy]_vars

\* ------------------------------------------------------------------ ErrorBoundary

\* The props of an ErrorBoundary: its children and its fallback.
ErrorBoundaryProps ==
    [children : {"<TestProfileAnalysis />", "<ComparisonTable />"},
     fallback : {"<p>Something went wrong</p>"}]

\* Mutant: the derived state of an error is that nothing was thrown.
getDerivedStateFromErrorNothing == [didThrow |-> FALSE]

\* static getDerivedStateFromError()
getDerivedStateFromError == [didThrow |-> TRUE]

\* render()
renderBoundary(state, props) ==
    IF state.didThrow THEN props.fallback ELSE props.children

\* The boundary is rendered with the props its parent gives it: on mount and
\* whenever the parent renders again.
BoundaryRender ==
    /\ Len(output) < MaxRenders
    /\ \E props \in ErrorBoundaryProps :
          output' = Append(output,
                           [props    |-> props,
                            returned |-> renderBoundary([didThrow |-> didThrow], props)])
    /\ UNCHANGED <<didThrow, reported>>
    /\ UNCHANGED <<sizeVars, profileVars, routeVars, legacyVars>>

\* A descendant of the mounted boundary throws: the state derived from the
\* error is merged into the state, the boundary is rendered again with its
\* props, and componentDidCatch logs the error.  reported holds, for every
\* error logged, the number of renders before it.
BoundaryCatch ==
    /\ Len(output) >= 1
    /\ Len(output) < MaxRenders
    /\ Len(reported) < MaxErrors
    /\ didThrow' = getDerivedStateFromError.didThrow
    /\ output' = Append(output,
                        [props    |-> output[Len(output)].props,
                         returned |-> renderBoundary([didThrow |-> didThrow'],
                                             output[Len(output)].props)])
    /\ reported' = Append(reported, Len(output))
    /\ UNCHANGED <<sizeVars, profileVars, routeVars, legacyVars>>

NextBoundary ==
    \/ BoundaryRender
    \/ BoundaryCatch

SpecBoundary == InitRest /\ [][NextBoundary]_vars

\* ------------------------------------------------------------------ claims

\* The snapshot S3 served (base) and the one CircleCI served (target).
BaseServed == s3.answer.body

TargetServed == circle.download.body

\* The loader answered with a comparison.
Compared == pc \in {"responded", "rendered"} /\ response.status = 200

Main == response.main

MetricNames == {"parsed", "gzip"}

\* The size a snapshot records for a metric of a bundle: 0 when it has no
\* record of the bundle.
Recorded(snapshot, bundle, metric) ==
    IF \E j \in 1..Len(snapshot) : snapshot[j][1] = bundle
    THEN LET j == CHOOSE k \in 1..Len(snapshot) : snapshot[k][1] = bundle
         IN  snapshot[j][2][metric]
    ELSE 0

\* C1: the comparison has exactly one entry per bundle id of
\* keys(base) \cup keys(target): the ids of the entries are that union, and
\* there are as many entries as the union has ids.
C1_OneEntryPerBundleOfUnion ==
    Compared =>
        /\ {Main[i][1] : i \in 1..Len(Main)} = KeySet(BaseServed) \cup KeySet(TargetServed)
        /\ Len(Main) = Cardinality(KeySet(BaseServed) \cup KeySet(TargetServed))

\* C1 witness: a comparison of two snapshots that share a bundle and differ in
\* their bundles.
C1_Witness ==
    /\ Compared
    /\ KeySet(BaseServed) \cap KeySet(TargetServed) # {}
    /\ KeySet(BaseServed) # KeySet(TargetServed)

\* C2: for every entry and metric, previous is the size the base snapshot
\* records (0 when the bundle is missing from base), current is the size the
\* target snapshot records (0 when missing), absoluteDiff = current - previous.
C2_PreviousCurrentAbsoluteDiff ==
    Compared =>
        \A i \in 1..Len(Main) : \A m \in MetricNames :
            LET size == Main[i][2][m]
            IN  /\ size.previous = Recorded(BaseServed, Main[i][1], m)
                /\ size.current = Recorded(TargetServed, Main[i][1], m)
                /\ size.absoluteDiff = size.current - size.previous

\* C2 witness: a comparison with an added, a removed and a changed bundle.
C2_Witness ==
    /\ Compared
    /\ KeySet(BaseServed) \ KeySet(TargetServed) # {}
    /\ \E i \in 1..Len(Main) :
         /\ Main[i][1] \in KeySet(BaseServed) \cap KeySet(TargetServed)
         /\ Main[i][2].parsed.absoluteDiff < 0
         /\ Main[i][2].gzip.absoluteDiff > 0

RowKey(row) ==
    <<Abs(row[2].parsed.absoluteDiff), Abs(row[2].gzip.absoluteDiff)>>

\* C3: the rows are the entries, ordered by |parsed.absoluteDiff| descending,
\* then |gzip.absoluteDiff| descending, then label ascending; the relative
\* diff is no part of the order.
C3_RowsOrdered ==
    pc = "rendered" =>
        /\ Len(rows) = Len(Main)
        /\ {rows[i][2].id : i \in 1..Len(rows)} = {Main[i][1] : i \in 1..Len(Main)}
        /\ \A i, j \in 1..Len(rows) :
             i < j =>
               \/ RowKey(rows[i])[1] > RowKey(rows[j])[1]
               \/ /\ RowKey(rows[i])[1] = RowKey(rows[j])[1]
                  /\ RowKey(rows[i])[2] > RowKey(rows[j])[2]
               \/ /\ RowKey(rows[i]) = RowKey(rows[j])
                  /\ localeCompare(rows[i][1], rows[j][1]) <= 0

\* The entry of the bundle of a row, as the loader computed it.
MainEntryOf(row) ==
    Main[CHOOSE i \in 1..Len(Main) : Main[i][1] = row[2].id]

\* C3 witness: three rows; a bundle whose relative diff is +Infinity stands
\* behind one with a finite relative diff and a larger absolute diff, and two
\* rows tie in both absolute diffs.
C3_Witness ==
    /\ pc = "rendered"
    /\ Len(rows) = 3
    /\ \E i, j \in 1..3 :
         /\ i < j
         /\ MainEntryOf(rows[j])[2].gzip.relativeDiff = PosInfinity
         /\ MainEntryOf(rows[i])[2].parsed.relativeDiff.kind = "finite"
         /\ MainEntryOf(rows[i])[2].gzip.relativeDiff.kind = "finite"
         /\ RowKey(rows[i])[1] > RowKey(rows[j])[1]
    /\ \E i, j \in 1..3 : i # j /\ RowKey(rows[i]) = RowKey(rows[j])

Added(bundle) == bundle \in KeySet(TargetServed) \ KeySet(BaseServed)

Removed(bundle) == bundle \in KeySet(BaseServed) \ KeySet(TargetServed)

\* C4 (as claimed): for every bundle present in target and absent from base,
\* both metrics have previous = 0 and relativeDiff = +Infinity.
C4_AddedIsPlusInfinity ==
    Compared =>
        \A i \in 1..Len(Main) : \A m \in MetricNames :
            Added(Main[i][1]) =>
                /\ Main[i][2][m].previous = 0
                /\ Main[i][2][m].relativeDiff = PosInfinity

\* C5 (as claimed): for every bundle present in base and absent from target,
\* both metrics have current = 0, absoluteDiff = -previous, relativeDiff = -1.
C5_RemovedIsMinusOne ==
    Compared =>
        \A i \in 1..Len(Main) : \A m \in MetricNames :
            Removed(Main[i][1]) =>
                /\ Main[i][2][m].current = 0
                /\ Main[i][2][m].absoluteDiff = -Main[i][2][m].previous
                /\ Main[i][2][m].relativeDiff = Num(-1)

RecordedNonZero(bundle, m) ==
    \/ \E j \in 1..Len(BaseServed) :
         BaseServed[j][1] = bundle /\ BaseServed[j][2][m] # 0
    \/ \E j \in 1..Len(TargetServed) :
         TargetServed[j][1] = bundle /\ TargetServed[j][2][m] # 0

FailedAnswer(answer) ==
    \/ answer.kind = "rejected"
    \/ /\ answer.kind = "response"
       /\ (answer.status \notin 200..299 \/ ~answer.json)

\* One of the two snapshot fetches failed.
FetchFailed ==
    \/ FailedAnswer(s3.answer)
    \/ FailedAnswer(circle.listing)
    \/ /\ circle.listing.kind = "response"
       /\ circle.listing.json
       /\ \A i \in 1..Len(circle.listing.body) : circle.listing.body[i] # "size-snapshot.json"
    \/ FailedAnswer(circle.download)

\* C7 (as claimed): when a snapshot fetch failed, the loader's outcome is the
\* 404 error response and no comparison.
C7_FailedFetchIs404 ==
    (pc \in {"responded", "rendered", "caught"} /\ FetchFailed) =>
        /\ response.status = 404
        /\ response.data # "main"

\* C8: both fetches are started in one step, before either is awaited; a
\* comparison is computed only after both have fulfilled; and it is the size
\* diff of what S3 served (as base) and what CircleCI served (as target), in
\* whichever order the two settled.
C8_BothFetchedThenCompared ==
    /\ (s3.st = "idle") <=> (circle.st = "idle")
    /\ pc \in {"idle", "awaiting"} => (pc = "idle" <=> s3.st = "idle")
    /\ response.data = "main" =>
         /\ s3.st = "fulfilled"
         /\ circle.st = "fulfilled"
         /\ response.main = SizeDiff(BaseServed, TargetServed).main

\* C8 witness: a comparison of two different snapshots for which CircleCI's
\* fetch settled before S3's.
C8_Witness ==
    /\ response.data = "main"
    /\ settled = <<"circle", "s3">>
    /\ BaseServed # TargetServed
    /\ Len(response.main) = 2

\* C9: the size diff ends without an error for every two snapshots, and two
\* empty snapshots give the empty sequence.
C9_Total ==
    pc \in {"responded", "rendered"} =>
        /\ response.status = 200
        /\ response.data = "main"
        /\ (BaseServed = <<>> /\ TargetServed = <<>>) => Main = <<>>

\* C9 witness: the comparison of two empty snapshots.
C9_Witness ==
    /\ pc = "responded"
    /\ BaseServed = <<>>
    /\ TargetServed = <<>>
    /\ response.status = 200

\* C10: when keys(base) and keys(target) are disjoint, every entry is fully
\* added (previous = 0 for parsed and gzip) or fully removed (current = 0 for
\* parsed and gzip).
C10_DisjointFullyAddedOrRemoved ==
    (Compared /\ KeySet(BaseServed) \cap KeySet(TargetServed) = {}) =>
        \A i \in 1..Len(Main) :
            \/ Main[i][2].parsed.previous = 0 /\ Main[i][2].gzip.previous = 0
            \/ Main[i][2].parsed.current = 0 /\ Main[i][2].gzip.current = 0

\* C10 witness: snapshots with disjoint keys, and an added and a removed
\* bundle of nonzero sizes.
C10_Witness ==
    /\ Compared
    /\ KeySet(BaseServed) \cap KeySet(TargetServed) = {}
    /\ \E i, j \in 1..Len(Main) :
         /\ Added(Main[i][1])
         /\ Main[i][2].parsed.current > 0
         /\ Main[i][2].gzip.current > 0
         /\ Removed(Main[j][1])
         /\ Main[j][2].parsed.previous > 0
         /\ Main[j][2].gzip.previous > 0

\* C11: when a snapshot is compared with itself, every entry has, for both
\* metrics, absoluteDiff = 0, and relativeDiff = 0 wherever the previous value
\* is not zero.
C11_SelfComparisonIsZero ==
    (Compared /\ BaseServed = TargetServed) =>
        \A i \in 1..Len(Main) : \A m \in MetricNames :
            /\ Main[i][2][m].absoluteDiff = 0
            /\ Main[i][2][m].previous # 0 => Main[i][2][m].relativeDiff = Num(0)

\* C11 witness: a snapshot of MaxKeys bundles compared with itself, one of its
\* metrics not zero and another one zero.
C11_Witness ==
    /\ Compared
    /\ BaseServed = TargetServed
    /\ Len(Main) = MaxKeys
    /\ \E i \in 1..Len(Main) : Main[i][2].parsed.previous # 0
    /\ \E i \in 1..Len(Main) : Main[i][2].gzip.previous = 0

\* A row whose bundle did not change: absoluteDiff = 0 for parsed and for gzip.
UnchangedRow(row) ==
    row[2].parsed.absoluteDiff = 0 /\ row[2].gzip.absoluteDiff = 0

\* C12: in the sorted rows every unchanged bundle comes after every bundle
\* that changed in at least one metric.
C12_UnchangedRowsLast ==
    pc = "rendered" =>
        \A i \in 1..Len(rows) : \A j \in 1..Len(rows) :
            (UnchangedRow(rows[i]) /\ ~UnchangedRow(rows[j])) => j < i

\* C12 witness: a table in which a bundle that shrank and a bundle that grew
\* are followed by an unchanged bundle that came first in the entries.
C12_Witness ==
    /\ pc = "rendered"
    /\ Len(rows) = 3
    /\ UnchangedRow(rows[3])
    /\ rows[3][2].id = Main[1][1]
    /\ \E i \in 1..2 : rows[i][2].parsed.absoluteDiff < 0
    /\ \E i \in 1..2 : rows[i][2].gzip.absoluteDiff > 0

\* The sequences that list the elements of seq in some order.
Reorderings(seq) ==
    { [i \in 1..Len(seq) |-> seq[f[i]]] :
        f \in { g \in [1..Len(seq) -> 1..Len(seq)] :
                   \A i, j \in 1..Len(seq) : g[i] = g[j] => i = j } }

\* The rows of the table for the comparison of base with target.
RowsOf(base, target) ==
    Rows(useLoaderData(ComparisonResponse(base, target).main))

\* C13 (as claimed): the rows do not depend on the order in which the two
\* snapshots list their keys: the same two mappings with their keys in any
\* other order give the same sequence of rows.
C13_RowsIndependentOfKeyOrder ==
    pc = "rendered" =>
        \A base \in Reorderings(BaseServed) :
            \A target \in Reorderings(TargetServed) :
                RowsOf(base, target) = rows

\* C14: computing the size diff and sorting the rows leave what they were
\* given as it was: the two snapshots as they were fetched, the module's
\* nullSnapshot, and the entries array handed to the table, which after the
\* rows were sorted still holds the loader's entries in the loader's order.
C14_InputsAndSharedValuesUnchanged ==
    [][(pc \in {"awaiting", "responded"} /\ all.st = "fulfilled") =>
          /\ all' = all
          /\ s3' = s3
          /\ circle' = circle
          /\ nullSnapshot' = nullSnapshot
          /\ nullSnapshot = [parsed |-> 0, gzip |-> 0]
          /\ pc' = "rendered" => entries' = useLoaderData(response.main)]_vars

\* C14 witness: after an earlier comparison, a table whose sorted rows are in
\* another order than the entries it was given, with bundles that are missing
\* in one of the two snapshots.
C14_Witness ==
    /\ pc = "rendered"
    /\ last.main # <<>>
    /\ Len(rows) = 2
    /\ rows[1][2].id = entries[2][1]
    /\ entries[1][1] = response.main[1][1]
    /\ KeySet(BaseServed) # KeySet(TargetServed)

\* C15: over any sequence of requests, the deltas a request returns are those
\* of the two snapshots fetched for this request and of nothing else: one
\* entry per bundle id of these two snapshots, with the sizes these two
\* snapshots record and their differences, whatever earlier requests compared.
C15_DeltasOfThisRequestOnly ==
    response.data = "main" =>
        /\ Len(Main) = Cardinality(KeySet(BaseServed) \cup KeySet(TargetServed))
        /\ \A i \in 1..Len(Main) : \A m \in MetricNames :
              LET p == Recorded(BaseServed, Main[i][1], m)
                  c == Recorded(TargetServed, Main[i][1], m)
              IN  /\ Main[i][1] \in KeySet(BaseServed) \cup KeySet(TargetServed)
                  /\ Main[i][2][m].previous = p
                  /\ Main[i][2][m].current = c
                  /\ Main[i][2][m].absoluteDiff = c - p
                  /\ Main[i][2][m].relativeDiff = MinusOne(Divide(c, p))

\* C15 witness: a comparison that follows a request which compared other
\* snapshots and returned other deltas.
C15_Witness ==
    /\ response.data = "main"
    /\ Len(Main) = 2
    /\ last.main # <<>>
    /\ last.main # Main

\* The loader has answered 304 and has started neither fetch.
NotModifiedWithoutFetch ==
    /\ pc = "responded"
    /\ response.status = 304
    /\ s3.st = "idle"
    /\ circle.st = "idle"
    /\ all.st = "idle"

\* C16: once the loader has run on a request whose If-None-Match is the ETag
\* of its query string, the answer is 304 and neither fetch was started; the
\* ETag of a response is that of the query string alone, the same in every
\* response to the same query; and a request that replays the ETag of the
\* response before it to the same query is answered this way.
C16_MatchingEtagIs304WithoutFetch ==
    /\ (pc # "idle" /\ request.ifNoneMatch = etagOf(request.query)) =>
          NotModifiedWithoutFetch
    /\ response.etag # NoHeader =>
          /\ response.etag = etagOf(request.query)
          /\ (last.etag # NoHeader /\ last.query = request.query) =>
                response.etag = last.etag
    /\ (/\ pc # "idle"
        /\ last.etag # NoHeader
        /\ last.query = request.query
        /\ request.ifNoneMatch = last.etag) => NotModifiedWithoutFetch

\* C16 witness: a comparison was returned with its ETag, and the next request
\* to the same query replayed that ETag and got 304.
C16_Witness ==
    /\ NotModifiedWithoutFetch
    /\ last.main # <<>>
    /\ last.query = request.query
    /\ last.etag = request.ifNoneMatch

\* The loader computed relativeDiff = +Infinity for metric m of bundle id.
InfiniteIncrease(id, m) ==
    \E j \in 1..Len(Main) :
        Main[j][1] = id /\ Main[j][2][m].relativeDiff = PosInfinity

\* C17 (as claimed): for a newly added bundle, whose relativeDiff is
\* +Infinity, the table renders the change as "added" and not as a percentage.
C17_AddedBundleRendersAdded ==
    pc = "rendered" =>
        \A i \in 1..Len(table) :
            /\ (Added(table[i].key) /\ InfiniteIncrease(table[i].key, "parsed")) =>
                  table[i].sizeChange.text = "added"
            /\ (Added(table[i].key) /\ InfiniteIncrease(table[i].key, "gzip")) =>
                  table[i].gzipChange.text = "added"

\* The number of timings of list that satisfy Test.
CountTimings(list, Test(_)) == Cardinality({i \in 1..Len(list) : Test(list[i])})

TimingFields == {"actualDuration", "baseDuration", "startTime", "commitTime"}

\* The number of reports profile tp has for the test id.
ReportsOf(tp) ==
    IF testId \in DOMAIN tp.profile THEN Len(tp.profile[testId]) ELSE 0

\* The profiles of browser b that have a report at index i for the test id,
\* in the order of the profiles of the build.
ProfilesWithReport(b, i) ==
    LET Has(tp) == tp.browserName = b /\ ReportsOf(tp) >= i
    IN  SelectSeq(testProfiles, Has)

\* The values of a field in the reports at index i of these profiles.
Collected(b, i, field) ==
    LET from == ProfilesWithReport(b, i)
    IN  [k \in 1..Len(from) |-> from[k].profile[testId][i][field]]

\* The largest number of reports a profile of browser b has for the test id.
MostReports(b) ==
    LET counts == {0} \cup { ReportsOf(testProfiles[p]) :
                                p \in { q \in 1..Len(testProfiles) :
                                          testProfiles[q].browserName = b } }
    IN  CHOOSE n \in counts : \A k \in counts : k <= n

\* The same values, each once, in whatever order.
SameValues(s, t) ==
    /\ Len(s) = Len(t)
    /\ {s[k] : k \in 1..Len(s)} = {t[k] : k \in 1..Len(t)}
    /\ Cardinality({s[k] : k \in 1..Len(s)}) = Len(s)

RanOnPullRequest(vcs, n) ==
    /\ "branch" \in DOMAIN vcs
    /\ vcs.branch \in {<<"pull", "/", n, "/", "head">>,
                        <<"pull", "/", n, "/", "merge">>}

C21_LabelAndReviewUrlAgree ==
    view = "testProfileDetails" =>
        LET vcs == pipeline.vcs
            origin == vcs.origin_repository_url
            label == testProfileDetails.label
        IN  /\ \A n \in Digits :
                  label = <<"#", n>> =>
                      testProfileDetails.reviewUrl =
                          origin \o <<"/", "pull", "/", n, "/">>
            /\ ("branch" \in DOMAIN vcs /\ label[1] # "#") =>
                  /\ label = vcs.branch \o <<" ", "(">>
                              \o SubSeq(vcs.revision, 1, 8) \o <<")">>
                  /\ testProfileDetails.reviewUrl =
                        origin \o <<"/", "commit", "/">> \o vcs.revision \o <<"/">>

\* C22 (as claimed): for every response the test-profile loader returns,
\* the 404 of a build without profiling artifacts included, meta returns a
\* page title without throwing.
C22_MetaNeverThrows ==
    routePc = "meta" =>
        /\ ~metaResult.threw
        /\ Len(metaResult.title) > 0

\* C23: fetchTestProfiles starts the downloads of all matching artifacts
\* together, and the list it fulfils with has one profile per matching
\* artifact, in the order of the artifact listing whatever order the
\* downloads settled in; each profile has the browser name and the timestamp
\* of its own artifact and the body downloaded from that artifact's url.
C23_ProfilesInListingOrder ==
    /\ fetched.st \in {"pending", "fulfilled"} =>
          /\ Len(downloads) = Len(infos)
          /\ \A i \in 1..Len(downloads) :
                \/ downloads[i].st \in {"pending", "rejected"}
                \/ i \in { arrived[k] : k \in 1..Len(arrived) }
    /\ fetched.st = "fulfilled" =>
          /\ Len(fetched.values) = Len(infos)
          /\ \A i \in 1..Len(infos) :
                /\ fetched.values[i].browserName = infos[i].browserName
                /\ fetched.values[i].timestamp = infos[i].timestamp
                /\ fetched.values[i].profile = ArtifactBody(infos[i].url)

\* C23's case: two different matching artifacts, the download of the second
\* settled before the download of the first, and the list is fulfilled.
C23_Witness ==
    /\ fetched.st = "fulfilled"
    /\ Len(infos) = 2
    /\ infos[1].browserName # infos[2].browserName
    /\ arrived = <<2, 1>>

\* C24 (as claimed): within one comparison table that keys its rows by the
\* bundle label, the rows of distinct bundle ids have distinct keys, so that
\* every bundle of the diff is a row of its own.
C24_DistinctRowKeys ==
    legacyTables # <<>> =>
        \A t \in 1..2 :
            \A i, j \in 1..Len(legacyTables[t]) :
                legacyTables[t][i].id # legacyTables[t][j].id
                    => legacyTables[t][i].key # legacyTables[t][j].key

\* C25: ErrorBoundary is a one-way latch: didThrow is false exactly as long
\* as no error of a descendant was reported, every render before the first
\* error returns the children, and every render after it returns the
\* fallback; didThrow never goes back to false.
C25_OneWayLatch ==
    /\ didThrow <=> reported # <<>>
    /\ \A k \in 1..Len(output) :
          output[k].returned =
              IF reported # <<>> /\ k > reported[1]
              THEN output[k].props.fallback
              ELSE output[k].props.children

\* C25's case: the children were rendered, a descendant threw, and the
\* boundary was rendered again by its parent after that.
C25_Witness ==
    /\ didThrow
    /\ Len(output) >= 3
    /\ reported = <<1>>
    /\ output[1].returned = output[1].props.children
    /\ output[3].returned = output[3].props.fallback

====
